---- MODULE Spec2Model ----
(***************************************************************************)
(* Power-redistribution and alerting engine of the Smart Campus Monitor.   *)
(*                                                                         *)
(* The module-level registries of src/utils/sensorSimulator.ts             *)
(* (powerLimits, powerAdjustmentHistory), the alert list held by the App   *)
(* component and the wall clock are the state.  One action stands for one  *)
(* handler: the 5 s interval callback, the set-limit form's submit, and    *)
(* the acknowledge / resolve / add-note / dismiss buttons.                 *)
(*                                                                         *)
(* Numbers.  Energy values are JavaScript numbers; the model keeps them as *)
(* integers counted in 1/Scale kWh and carries every quotient as an exact  *)
(* numerator/denominator pair, so that Math.round is applied to the exact  *)
(* value of the expression it is applied to in the code.  The rounding     *)
(* error of binary floating point itself is not modelled.                  *)
(*                                                                         *)
(* Clock.  Date.now() and new Date() read the wall clock, which the code   *)
(* does not control: it need not have moved on between two handlers.       *)
(*                                                                         *)
(* Not modelled: the sensorData copy of the snapshot set that App keeps    *)
(* for rendering, the fields of a snapshot other than id, location,        *)
(* energyUsage and powerLimit, and the view state of the components        *)
(* (selected filter, which field is being edited).                         *)
(*                                                                         *)
(* Spec is the whole system.  SpecEngine is the engine on its own          *)
(* (setPowerLimit through the form, generateSensorData and                 *)
(* checkPowerAlerts), followed over longer ledgers.                        *)
(* SpecExample is the engine on the limits and readings of the contract's  *)
(* worked example.                                                         *)
(* SpecCycle is the whole system with the interval callback followed one   *)
(* registry write at a time.                                               *)
(***************************************************************************)
EXTENDS Integers, Sequences, FiniteSets, TLC

\* ------------------------------------------------------------------ bounds
\* number of zones modelled (the first NumZones entries of the code's list)
NumZones == 3
\* the ledger is followed up to this many records by the whole system
MaxHistory == 4
\* of which at most this many are manual adjustments
MaxManual == 2
\* the ledger is followed up to this many records when the interval
\* callback is followed write by write
MaxCycleHistory == 4
\* of which at most this many are manual adjustments
MaxCycleManual == 2
\* the ledger is followed up to this many records on the worked example
MaxExampleHistory == 7
\* of which at most this many are manual adjustments
MaxExampleManual == 3
\* the ledger is followed up to this many records by the engine on its own
MaxEngineHistory == 7
\* of which at most this many are manual adjustments
MaxEngineManual == 3
\* the alert list of the App is followed up to this many alerts
MaxAlerts == 2
\* the clock is followed up to this value
MaxClock == 1

\* --------------------------------------------------------------- constants
\* energy values are counted in quarters of a kWh
Scale == 4

AllLocations == <<"Main Hall", "Library", "Cafeteria", "Computer Lab", "Auditorium">>

LOCATIONS == SubSeq(AllLocations, 1, NumZones)

Zones == {LOCATIONS[i] : i \in 1..NumZones}

\* readings of energyUsage offered to a cycle: 100.25 and 189.75 kWh
\* (the generator draws from [100, 500) kWh)
UsageValues == {100 * Scale + 1, 189 * Scale + 3}

\* what the operator types into the limit field
TempLimits == {"abc", "0", "150"}

\* the limits and the readings of the worked example of the contract:
\* limits of 100 and 200 kWh, readings of 100 and 120 kWh, and a reading
\* of 150 kWh for a second, larger excess
ExampleLimits == {"100", "200"}

ExampleUsages == {100 * Scale, 120 * Scale, 150 * Scale}

\* what the operator types into the note field
NoteInputs == {"  ", "checked"}

\* an optional Date field (acknowledgedAt, resolvedAt) that is not set;
\* every Date that is set is a clock value, which is 0 or more
NoDate == -1

\* an optional notes field that is not set
NoNotes == "undefined"

\* cycle is the position of the interval callback that is running, if one is
VARIABLES powerLimits, powerAdjustmentHistory, alerts, now, setCalls, last,
          cycle

vars == <<powerLimits, powerAdjustmentHistory, alerts, now, setCalls, last,
          cycle>>

\* ------------------------------------------------------------ arithmetic
\* Math.round of the rational num/den (den > 0): floor(num/den + 1/2)
Round(num, den) == (2 * num + den) \div (2 * den)

Max(a, b) == IF a >= b THEN a ELSE b

\* parseFloat on the strings the operator can type, in 1/Scale kWh
\* (isNaN marks the result NaN)
parseFloat(s) ==
  CASE s = "0" -> [isNaN |-> FALSE, value |-> 0]
    [] s = "100" -> [isNaN |-> FALSE, value |-> 100 * Scale]
    [] s = "200" -> [isNaN |-> FALSE, value |-> 200 * Scale]
    [] s = "150" -> [isNaN |-> FALSE, value |-> 150 * Scale]
    [] OTHER -> [isNaN |-> TRUE, value |-> 0]

\* String.prototype.trim on the note inputs
trim(s) == IF s = "  " THEN "" ELSE s

\* ------------------------------------------------------------ registry
\* the registries as one value threaded through a call chain
Registry(limits, history, calls) ==
  [limits |-> limits, history |-> history, calls |-> calls]

\* the write that pushes its record and does not store the limit
setPowerLimit_recordOnly(st, location, limit, reason, ts) ==
  LET oldLimit == st.limits[location]
  IN  [limits  |-> st.limits,
       history |-> Append(st.history,
                     [timestamp |-> ts, location |-> location,
                      oldLimit |-> oldLimit, newLimit |-> limit,
                      reason |-> reason]),
       calls   |-> st.calls + 1]

\* the write that records nothing when the limit stays the same
setPowerLimit_skipUnchanged(st, location, limit, reason, ts) ==
  LET oldLimit == st.limits[location]
  IN  [limits  |-> [st.limits EXCEPT ![location] = limit],
       history |-> IF oldLimit = limit THEN st.history
                   ELSE Append(st.history,
                     [timestamp |-> ts, location |-> location,
                      oldLimit |-> oldLimit, newLimit |-> limit,
                      reason |-> reason]),
       calls   |-> st.calls + 1]

\* the write that reads the old limit after storing the new one
setPowerLimit_readAfterWrite(st, location, limit, reason, ts) ==
  LET limits == [st.limits EXCEPT ![location] = limit]
  IN  [limits  |-> limits,
       history |-> Append(st.history,
                     [timestamp |-> ts, location |-> location,
                      oldLimit |-> limits[location], newLimit |-> limit,
                      reason |-> reason]),
       calls   |-> st.calls + 1]

\* lines 21-31; calls counts the calls made
setPowerLimit(st, location, limit, reason, ts) ==
  LET oldLimit == st.limits[location]
  IN  [limits  |-> [st.limits EXCEPT ![location] = limit],
       history |-> Append(st.history,
                     [timestamp |-> ts, location |-> location,
                      oldLimit |-> oldLimit, newLimit |-> limit,
                      reason |-> reason]),
       calls   |-> st.calls + 1]

getAdjustmentHistory == powerAdjustmentHistory

generateSensorData(limits, usages) ==
  [i \in 1..NumZones |->
     [id |-> i, location |-> LOCATIONS[i],
      energyUsage |-> usages[i], powerLimit |-> limits[LOCATIONS[i]]]]

\* ------------------------------------------------------ redistributePower
\* find in place of filter: the first zone that passes the test, alone
otherLocations_find(data, alert) ==
  LET found == SelectSeq(data, LAMBDA sensor :
                  /\ sensor.location # alert.location
                  /\ sensor.powerLimit > 0
                  /\ sensor.energyUsage < sensor.powerLimit)
  IN  IF found = <<>> THEN <<>> ELSE <<Head(found)>>

\* the filter of lines 62-66
otherLocations(data, alert) ==
  SelectSeq(data, LAMBDA sensor :
     /\ sensor.location # alert.location
     /\ sensor.powerLimit > 0
     /\ sensor.energyUsage < sensor.powerLimit)

\* five times the reduce of lines 71-74: margin * 0.8 is 4 * margin / 5
RECURSIVE totalAvailablePower5(_)
totalAvailablePower5(others) ==
  IF others = <<>> THEN 0
  ELSE LET sensor == Head(others)
           margin == sensor.powerLimit - sensor.energyUsage
       IN  (IF margin > 0 THEN 4 * margin ELSE 0)
             + totalAvailablePower5(Tail(others))

\* the donor left with the margin that remains as its limit
Contribution_remainingMargin(sensor, tot5, excessPower) ==
  LET margin == sensor.powerLimit - sensor.energyUsage
      cNum   == 5 * margin * excessPower
      nlNum  == Max(sensor.energyUsage * tot5, sensor.powerLimit * tot5 - cNum)
                  - sensor.energyUsage * tot5
  IN  [location |-> sensor.location,
       energyUsage |-> sensor.energyUsage,
       powerLimit |-> sensor.powerLimit,
       margin |-> margin,
       cNum |-> cNum, cDen |-> tot5,
       nlNum |-> nlNum,
       written |-> Round(nlNum, tot5 * Scale) * Scale,
       reported |-> Round(cNum, tot5 * Scale)]

\* the donor giving its share of the 80% that was offered:
\* contribution = (0.8 * margin / total) * excess
Contribution_reservedShare(sensor, tot5, excessPower) ==
  LET margin == sensor.powerLimit - sensor.energyUsage
      cNum   == 4 * margin * excessPower
      nlNum  == Max(sensor.energyUsage * tot5, sensor.powerLimit * tot5 - cNum)
  IN  [location |-> sensor.location,
       energyUsage |-> sensor.energyUsage,
       powerLimit |-> sensor.powerLimit,
       margin |-> margin,
       cNum |-> cNum, cDen |-> tot5,
       nlNum |-> nlNum,
       written |-> Round(nlNum, tot5 * Scale) * Scale,
       reported |-> Round(cNum, tot5 * Scale)]

\* lines 80-82 for one donor.  contribution = (margin / total) * excess is
\* the rational cNum / cDen; newLimit is the rational nlNum / cDen.
Contribution(sensor, tot5, excessPower) ==
  LET margin == sensor.powerLimit - sensor.energyUsage
      cNum   == 5 * margin * excessPower
      nlNum  == Max(sensor.energyUsage * tot5, sensor.powerLimit * tot5 - cNum)
  IN  [location |-> sensor.location,
       energyUsage |-> sensor.energyUsage,
       powerLimit |-> sensor.powerLimit,
       margin |-> margin,
       cNum |-> cNum, cDen |-> tot5,
       nlNum |-> nlNum,
       written |-> Round(nlNum, tot5 * Scale) * Scale,
       reported |-> Round(cNum, tot5 * Scale)]

\* the forEach of lines 79-89: one setPowerLimit per donor, in data order
RECURSIVE applyDonors(_, _, _, _, _, _)
applyDonors(st, others, tot5, excessPower, alert, ts) ==
  IF others = <<>> THEN st
  ELSE LET c == Contribution(Head(others), tot5, excessPower)
       IN  applyDonors(
             setPowerLimit(st, c.location, c.written,
                           <<"Contributed", c.reported, "kWh to", alert.location>>, ts),
             Tail(others), tot5, excessPower, alert, ts)

\* the call without its test of the total against the excess (line 76)
redistributePower_noTotalTest(st, data, alert, ts) ==
  LET excessPower == alert.currentUsage - alert.limit
      others      == otherLocations(data, alert)
      tot5        == totalAvailablePower5(others)
      failed      == [ok |-> FALSE, st |-> st, alert |-> alert, before |-> st,
                      excessPower |-> excessPower, tot5 |-> tot5,
                      donors |-> <<>>]
  IN  IF Len(others) = 0 THEN failed
      ELSE LET afterDonors == applyDonors(st, others, tot5, excessPower, alert, ts)
               raised == setPowerLimit(afterDonors, alert.location,
                            Round(alert.currentUsage * 11, 10 * Scale) * Scale,
                            <<"Received power from other locations">>, ts)
           IN  [ok |-> TRUE, st |-> raised, alert |-> alert, before |-> st,
                excessPower |-> excessPower, tot5 |-> tot5,
                donors |-> [k \in 1..Len(others) |->
                              Contribution(others[k], tot5, excessPower)]]

\* the call that raises the violating zone to 1.1 x its limit
redistributePower_raiseFromLimit(st, data, alert, ts) ==
  LET excessPower == alert.currentUsage - alert.limit
      others      == otherLocations(data, alert)
      tot5        == totalAvailablePower5(others)
      failed      == [ok |-> FALSE, st |-> st, alert |-> alert, before |-> st,
                      excessPower |-> excessPower, tot5 |-> tot5,
                      donors |-> <<>>]
  IN  IF Len(others) = 0 THEN failed
      ELSE IF tot5 < 5 * excessPower THEN failed
      ELSE LET afterDonors == applyDonors(st, others, tot5, excessPower, alert, ts)
               raised == setPowerLimit(afterDonors, alert.location,
                            Round(alert.limit * 11, 10 * Scale) * Scale,
                            <<"Received power from other locations">>, ts)
           IN  [ok |-> TRUE, st |-> raised, alert |-> alert, before |-> st,
                excessPower |-> excessPower, tot5 |-> tot5,
                donors |-> [k \in 1..Len(others) |->
                              Contribution(others[k], tot5, excessPower)]]

\* the call that raises the violating zone before it takes from the donors
redistributePower_raiseFirst(st, data, alert, ts) ==
  LET excessPower == alert.currentUsage - alert.limit
      others      == otherLocations(data, alert)
      tot5        == totalAvailablePower5(others)
      failed      == [ok |-> FALSE, st |-> st, alert |-> alert, before |-> st,
                      excessPower |-> excessPower, tot5 |-> tot5,
                      donors |-> <<>>]
  IN  IF Len(others) = 0 THEN failed
      ELSE IF tot5 < 5 * excessPower THEN failed
      ELSE LET raised == setPowerLimit(st, alert.location,
                            Round(alert.currentUsage * 11, 10 * Scale) * Scale,
                            <<"Received power from other locations">>, ts)
               afterDonors == applyDonors(raised, others, tot5, excessPower, alert, ts)
           IN  [ok |-> TRUE, st |-> afterDonors, alert |-> alert, before |-> st,
                excessPower |-> excessPower, tot5 |-> tot5,
                donors |-> [k \in 1..Len(others) |->
                              Contribution(others[k], tot5, excessPower)]]

\* the result of one call: the value returned, the registries after it, and
\* the values the call computed on the way
redistributePower(st, data, alert, ts) ==
  LET excessPower == alert.currentUsage - alert.limit
      others      == otherLocations(data, alert)
      tot5        == totalAvailablePower5(others)
      failed      == [ok |-> FALSE, st |-> st, alert |-> alert, before |-> st,
                      excessPower |-> excessPower, tot5 |-> tot5,
                      donors |-> <<>>]
  IN  IF Len(others) = 0 THEN failed
      ELSE IF tot5 < 5 * excessPower THEN failed
      ELSE LET afterDonors == applyDonors(st, others, tot5, excessPower, alert, ts)
               raised == setPowerLimit(afterDonors, alert.location,
                            Round(alert.currentUsage * 11, 10 * Scale) * Scale,
                            <<"Received power from other locations">>, ts)
           IN  [ok |-> TRUE, st |-> raised, alert |-> alert, before |-> st,
                excessPower |-> excessPower, tot5 |-> tot5,
                donors |-> [k \in 1..Len(others) |->
                              Contribution(others[k], tot5, excessPower)]]

\* ------------------------------------------------------- checkPowerAlerts
\* the filter without its test that a limit is set
newAlertsOf_noLimitTest(data, ts) ==
  LET violating == SelectSeq(data, LAMBDA sensor :
                      sensor.energyUsage > sensor.powerLimit)
  IN  [k \in 1..Len(violating) |->
         [id |-> <<violating[k].id, ts>>,
          location |-> violating[k].location,
          currentUsage |-> violating[k].energyUsage,
          limit |-> violating[k].powerLimit,
          timestamp |-> ts,
          status |-> "active",
          acknowledgedAt |-> NoDate,
          resolvedAt |-> NoDate,
          notes |-> NoNotes]]

\* lines 102-111: the violating snapshots, as fresh active alerts
newAlertsOf(data, ts) ==
  LET violating == SelectSeq(data, LAMBDA sensor :
                      sensor.powerLimit # 0 /\ sensor.energyUsage > sensor.powerLimit)
  IN  [k \in 1..Len(violating) |->
         [id |-> <<violating[k].id, ts>>,
          location |-> violating[k].location,
          currentUsage |-> violating[k].energyUsage,
          limit |-> violating[k].powerLimit,
          timestamp |-> ts,
          status |-> "active",
          acknowledgedAt |-> NoDate,
          resolvedAt |-> NoDate,
          notes |-> NoNotes]]

\* lines 114-121: one redistributePower per alert, in order, each on the
\* registries the previous one left; acc collects the calls made
RECURSIVE resolveAlerts(_, _, _, _, _, _)
resolveAlerts(st, data, created, k, ts, acc) ==
  IF k > Len(created) THEN [st |-> st, calls |-> acc]
  ELSE LET r == redistributePower(st, data, created[k], ts)
       IN  resolveAlerts(r.st, data, created, k + 1, ts, Append(acc, r))

\* the scan marking every alert resolved, whatever redistributePower returned
checkPowerAlerts_resolveAll(st, data, ts) ==
  LET created == newAlertsOf(data, ts)
      run     == resolveAlerts(st, data, created, 1, ts, <<>>)
  IN  [st |-> run.st,
       calls |-> run.calls,
       alerts |-> [k \in 1..Len(created) |->
                     [created[k] EXCEPT
                        !.status = "resolved",
                        !.resolvedAt = ts,
                        !.notes = "Automatically resolved through power redistribution"]]]

checkPowerAlerts(st, data, ts) ==
  LET created == newAlertsOf(data, ts)
      run     == resolveAlerts(st, data, created, 1, ts, <<>>)
  IN  [st |-> run.st,
       calls |-> run.calls,
       alerts |-> [k \in 1..Len(created) |->
                     IF run.calls[k].ok
                     THEN [created[k] EXCEPT
                             !.status = "resolved",
                             !.resolvedAt = ts,
                             !.notes = "Automatically resolved through power redistribution"]
                     ELSE created[k]]]

\* ------------------------------------------------------------- alert list
\* { ...alert, ...updates } for every alert with the id, lines 42-46
handleUpdateAlert(prev, alertId, updates) ==
  [k \in 1..Len(prev) |->
     IF prev[k].id = alertId
     THEN [f \in DOMAIN prev[k] |->
             IF f \in DOMAIN updates THEN updates[f] ELSE prev[k][f]]
     ELSE prev[k]]

\* lines 48-50
handleDismissAlert(prev, alertId) ==
  SelectSeq(prev, LAMBDA alert : alert.id # alertId)

\* ------------------------------------------------------------------ state
\* what the last step was, with the inputs it drew and, for a cycle, the
\* snapshot set, the alerts returned and the redistributePower calls made
Step(op, input, target, data, calls, returned) ==
  [op |-> op, input |-> input, target |-> target,
   data |-> data, calls |-> calls, returned |-> returned]

\* no interval callback is running
Idle == [pc |-> "idle"]

\* the event queue handing out the next handler while the callback is
\* between the writes of a redistribution, as if the callback awaited there
CanRun_betweenWrites == cycle.pc \in {"idle", "donors"}

\* a handler is taken from the event queue when the one before it has
\* returned: the callback and the handlers are synchronous functions
CanRun == cycle.pc = "idle"

Init ==
  /\ powerLimits = [z \in Zones |-> 0]
  /\ powerAdjustmentHistory = <<>>
  /\ alerts = <<>>
  /\ now = 0
  /\ setCalls = 0
  /\ last = Step("init", "", <<>>, <<>>, <<>>, <<>>)
  /\ cycle = Idle

\* the clock moves on between two handlers
Tick ==
  /\ CanRun
  /\ now < MaxClock
  /\ now' = now + 1
  /\ last' = Step("tick", "", <<>>, <<>>, <<>>, <<>>)
  /\ UNCHANGED <<powerLimits, powerAdjustmentHistory, alerts, setCalls, cycle>>

\* generateSensorData followed by checkPowerAlerts on its result: the
\* registries after the scan, with the ledger followed up to maxHistory
Scan(usages, maxHistory, r) ==
  /\ CanRun
  /\ UNCHANGED cycle
  /\ r = checkPowerAlerts(
           Registry(powerLimits, powerAdjustmentHistory, setCalls),
           generateSensorData(powerLimits, usages), now)
  /\ Len(r.st.history) <= maxHistory
  /\ powerLimits' = r.st.limits
  /\ powerAdjustmentHistory' = r.st.history
  /\ setCalls' = r.st.calls
  /\ last' = Step("scan", "", <<>>,
                  generateSensorData(powerLimits, usages), r.calls, r.alerts)

\* the exported functions called on their own: a scan whose caller keeps
\* no alert list
checkPowerAlertsCall ==
  \E usages \in [1..NumZones -> UsageValues] :
    LET r == checkPowerAlerts(
               Registry(powerLimits, powerAdjustmentHistory, setCalls),
               generateSensorData(powerLimits, usages), now)
    IN  /\ Scan(usages, MaxEngineHistory, r)
        /\ UNCHANGED <<alerts, now>>

\* the callback putting the alerts of the scan in place of the list
IntervalCallback_replaceList ==
  \E usages \in [1..NumZones -> UsageValues] :
    LET r == checkPowerAlerts(
               Registry(powerLimits, powerAdjustmentHistory, setCalls),
               generateSensorData(powerLimits, usages), now)
        newAlerts == r.alerts
    IN  /\ Scan(usages, MaxHistory, r)
        /\ Len(newAlerts) + Len(alerts) <= MaxAlerts
        /\ alerts' = IF Len(newAlerts) > 0 THEN newAlerts ELSE alerts
        /\ UNCHANGED now

\* the callback leaving out the alerts of a zone that has an alert in the
\* list that is not resolved
IntervalCallback_skipFlagged ==
  \E usages \in [1..NumZones -> UsageValues] :
    LET r == checkPowerAlerts(
               Registry(powerLimits, powerAdjustmentHistory, setCalls),
               generateSensorData(powerLimits, usages), now)
        newAlerts == SelectSeq(r.alerts, LAMBDA a :
                        \A k \in 1..Len(alerts) :
                           \/ alerts[k].location # a.location
                           \/ alerts[k].status = "resolved")
    IN  /\ Scan(usages, MaxHistory, r)
        /\ Len(newAlerts) + Len(alerts) <= MaxAlerts
        /\ alerts' = IF Len(newAlerts) > 0 THEN newAlerts \o alerts ELSE alerts
        /\ UNCHANGED now

\* the setInterval callback of App: a new snapshot set, the scan, and the
\* alerts it returns put in front of the list
IntervalCallback ==
  \E usages \in [1..NumZones -> UsageValues] :
    LET r == checkPowerAlerts(
               Registry(powerLimits, powerAdjustmentHistory, setCalls),
               generateSensorData(powerLimits, usages), now)
        newAlerts == r.alerts
    IN  /\ Scan(usages, MaxHistory, r)
        /\ Len(newAlerts) + Len(alerts) <= MaxAlerts
        /\ alerts' = IF Len(newAlerts) > 0 THEN newAlerts \o alerts ELSE alerts
        /\ UNCHANGED now

\* the manual adjustments recorded in a history
Manual(history) ==
  {k \in 1..Len(history) : history[k].reason = <<"Manual adjustment">>}

\* the submit that passes on whatever parseFloat returned (NaN is written
\* here as 0)
Submit_noTest(inputs, maxManual, maxHistory) ==
  \E location \in Zones, tempLimit \in inputs :
    LET limit == parseFloat(tempLimit)
        st    == Registry(powerLimits, powerAdjustmentHistory, setCalls)
        r     == setPowerLimit(st, location, limit.value,
                               <<"Manual adjustment">>, now)
    IN  /\ CanRun
        /\ UNCHANGED cycle
        /\ Cardinality(Manual(powerAdjustmentHistory)) < maxManual
        /\ Len(powerAdjustmentHistory) < maxHistory
        /\ last' = Step("handleSubmit", tempLimit, <<>>, <<>>, <<>>, <<>>)
        /\ powerLimits' = r.limits
        /\ powerAdjustmentHistory' = r.history
        /\ setCalls' = r.calls
        /\ UNCHANGED <<alerts, now>>

\* PowerManagement.handleSubmit and, when it accepts, handlePowerLimitChange;
\* inputs is what the operator may type
Submit(inputs, maxManual, maxHistory) ==
  \E location \in Zones, tempLimit \in inputs :
    LET limit == parseFloat(tempLimit)
        st    == Registry(powerLimits, powerAdjustmentHistory, setCalls)
    IN  /\ CanRun
        /\ UNCHANGED cycle
        /\ Cardinality(Manual(powerAdjustmentHistory)) < maxManual
        /\ Len(powerAdjustmentHistory) < maxHistory
        /\ last' = Step("handleSubmit", tempLimit, <<>>, <<>>, <<>>, <<>>)
        /\ IF ~limit.isNaN /\ limit.value > 0
           THEN LET r == setPowerLimit(st, location, limit.value,
                                       <<"Manual adjustment">>, now)
                IN  /\ powerLimits' = r.limits
                    /\ powerAdjustmentHistory' = r.history
                    /\ setCalls' = r.calls
           ELSE UNCHANGED <<powerLimits, powerAdjustmentHistory, setCalls>>
        /\ UNCHANGED <<alerts, now>>

handleSubmit == Submit(TempLimits, MaxManual, MaxHistory)

handleSubmitEngine == Submit(TempLimits, MaxEngineManual, MaxEngineHistory)

\* the Acknowledge button, rendered for an alert whose status is active
Acknowledge ==
  \E k \in 1..Len(alerts) :
    /\ alerts[k].status = "active"
    /\ alerts' = handleUpdateAlert(alerts, alerts[k].id,
                   [status |-> "acknowledged", acknowledgedAt |-> now])
    /\ last' = Step("acknowledge", "", alerts[k].id, <<>>, <<>>, <<>>)
    /\ CanRun
    /\ UNCHANGED <<powerLimits, powerAdjustmentHistory, setCalls, now, cycle>>

\* the Resolve button, rendered for an alert whose status is acknowledged
Resolve ==
  \E k \in 1..Len(alerts) :
    /\ alerts[k].status = "acknowledged"
    /\ alerts' = handleUpdateAlert(alerts, alerts[k].id,
                   [status |-> "resolved", resolvedAt |-> now])
    /\ last' = Step("resolve", "", alerts[k].id, <<>>, <<>>, <<>>)
    /\ CanRun
    /\ UNCHANGED <<powerLimits, powerAdjustmentHistory, setCalls, now, cycle>>

\* handleAddNote: the Add button of the note editor of an alert
handleAddNote ==
  \E k \in 1..Len(alerts), noteInput \in NoteInputs :
    /\ IF trim(noteInput) # ""
       THEN /\ alerts' = handleUpdateAlert(alerts, alerts[k].id,
                                           [notes |-> trim(noteInput)])
            /\ last' = Step("addNote", noteInput, alerts[k].id, <<>>, <<>>, <<>>)
       ELSE /\ alerts' = alerts
            /\ last' = Step("addNote", noteInput, <<>>, <<>>, <<>>, <<>>)
    /\ CanRun
    /\ UNCHANGED <<powerLimits, powerAdjustmentHistory, setCalls, now, cycle>>

\* the X button, rendered for every alert
Dismiss ==
  \E k \in 1..Len(alerts) :
    /\ alerts' = handleDismissAlert(alerts, alerts[k].id)
    /\ last' = Step("dismiss", "", alerts[k].id, <<>>, <<>>, <<>>)
    /\ CanRun
    /\ UNCHANGED <<powerLimits, powerAdjustmentHistory, setCalls, now, cycle>>

\* the whole system: the App with its timer and its operator
Next ==
  \/ Tick
  \/ IntervalCallback
  \/ handleSubmit
  \/ Acknowledge
  \/ Resolve
  \/ handleAddNote
  \/ Dismiss

Spec == Init /\ [][Next]_vars

\* the engine on its own: limits set and snapshot sets scanned, the alerts
\* returned kept by nobody
NextEngine ==
  \/ handleSubmitEngine
  \/ checkPowerAlertsCall

SpecEngine == Init /\ [][NextEngine]_vars

\* the engine on the values of the worked example of the contract
handleSubmitExample == Submit(ExampleLimits, MaxExampleManual, MaxExampleHistory)

checkPowerAlertsExample ==
  \E usages \in [1..NumZones -> ExampleUsages] :
    LET r == checkPowerAlerts(
               Registry(powerLimits, powerAdjustmentHistory, setCalls),
               generateSensorData(powerLimits, usages), now)
    IN  /\ Scan(usages, MaxExampleHistory, r)
        /\ UNCHANGED <<alerts, now>>

NextExample ==
  \/ handleSubmitExample
  \/ checkPowerAlertsExample

SpecExample == Init /\ [][NextExample]_vars

\* ------------------------------------------- the callback, write by write
\* a step inside the interval callback
InCycle == Step("cycle", "", <<>>, <<>>, <<>>, <<>>)

\* the callback starts: generateSensorData and lines 102-111 of
\* checkPowerAlerts; start keeps the registries the callback found
CycleStart ==
  \E usages \in [1..NumZones -> UsageValues] :
    LET st   == Registry(powerLimits, powerAdjustmentHistory, setCalls)
        data == generateSensorData(powerLimits, usages)
        r    == checkPowerAlerts(st, data, now)
    IN  /\ CanRun
        /\ Len(r.st.history) <= MaxCycleHistory
        /\ Len(r.alerts) + Len(alerts) <= MaxAlerts
        /\ cycle' = [pc |-> "alerts", data |-> data,
                     created |-> newAlertsOf(data, now), k |-> 1,
                     pending |-> <<>>, tot5 |-> 0, excessPower |-> 0,
                     start |-> st]
        /\ last' = InCycle
        /\ UNCHANGED <<powerLimits, powerAdjustmentHistory, alerts, now, setCalls>>

\* redistributePower is entered for the next alert (lines 114-115 and
\* 60-76): it returns false, or goes on to its writes
CycleCall ==
  /\ cycle.pc = "alerts"
  /\ cycle.k <= Len(cycle.created)
  /\ LET alert       == cycle.created[cycle.k]
         excessPower == alert.currentUsage - alert.limit
         others      == otherLocations(cycle.data, alert)
         tot5        == totalAvailablePower5(others)
     IN  IF Len(others) = 0 \/ tot5 < 5 * excessPower
         THEN cycle' = [cycle EXCEPT !.k = cycle.k + 1]
         ELSE cycle' = [cycle EXCEPT !.pc = "donors", !.pending = others,
                                     !.tot5 = tot5, !.excessPower = excessPower]
  /\ last' = InCycle
  /\ UNCHANGED <<powerLimits, powerAdjustmentHistory, alerts, now, setCalls>>

\* one pass of the forEach of lines 79-89: the setPowerLimit of one donor
CycleDonor ==
  /\ cycle.pc = "donors"
  /\ cycle.pending # <<>>
  /\ LET c == Contribution(Head(cycle.pending), cycle.tot5, cycle.excessPower)
         r == setPowerLimit(
                Registry(powerLimits, powerAdjustmentHistory, setCalls),
                c.location, c.written,
                <<"Contributed", c.reported, "kWh to",
                  cycle.created[cycle.k].location>>, now)
     IN  /\ powerLimits' = r.limits
         /\ powerAdjustmentHistory' = r.history
         /\ setCalls' = r.calls
  /\ cycle' = [cycle EXCEPT !.pending = Tail(cycle.pending)]
  /\ last' = InCycle
  /\ UNCHANGED <<alerts, now>>

\* lines 92-98 and 116-120: the violating zone is raised, redistributePower
\* returns true and the alert is marked resolved
CycleRaise ==
  /\ cycle.pc = "donors"
  /\ cycle.pending = <<>>
  /\ LET alert == cycle.created[cycle.k]
         r == setPowerLimit(
                Registry(powerLimits, powerAdjustmentHistory, setCalls),
                alert.location,
                Round(alert.currentUsage * 11, 10 * Scale) * Scale,
                <<"Received power from other locations">>, now)
     IN  /\ powerLimits' = r.limits
         /\ powerAdjustmentHistory' = r.history
         /\ setCalls' = r.calls
         /\ cycle' = [cycle EXCEPT
                        !.pc = "alerts", !.k = cycle.k + 1,
                        !.created[cycle.k] =
                           [alert EXCEPT
                              !.status = "resolved",
                              !.resolvedAt = now,
                              !.notes = "Automatically resolved through power redistribution"]]
  /\ last' = InCycle
  /\ UNCHANGED <<alerts, now>>

\* checkPowerAlerts returns (line 123) and the callback puts the alerts in
\* front of the list (part_001 lines 29-31)
CycleEnd ==
  /\ cycle.pc = "alerts"
  /\ cycle.k > Len(cycle.created)
  /\ alerts' = IF Len(cycle.created) > 0 THEN cycle.created \o alerts ELSE alerts
  /\ cycle' = Idle
  /\ last' = Step("scan", "", <<>>, cycle.data, <<>>, cycle.created)
  /\ UNCHANGED <<powerLimits, powerAdjustmentHistory, now, setCalls>>

handleSubmitCycle == Submit(TempLimits, MaxCycleManual, MaxCycleHistory)

\* the App with its interval callback followed write by write
NextCycle ==
  \/ CycleStart
  \/ CycleCall
  \/ CycleDonor
  \/ CycleRaise
  \/ CycleEnd
  \/ handleSubmitCycle
  \/ Acknowledge
  \/ Resolve
  \/ handleAddNote
  \/ Dismiss

SpecCycle == Init /\ [][NextCycle]_vars

\* ================================================================ claims
\* the last step was a scan
Scanned == last.op = "scan"

\* the donors of a call as the contract names them: the positions of the
\* snapshot set of another zone with limit > 0 and usage < limit
DonorsOf(data, alert) ==
  {i \in DOMAIN data :
     /\ data[i].location # alert.location
     /\ data[i].powerLimit > 0
     /\ data[i].energyUsage < data[i].powerLimit}

RECURSIVE MarginSum(_, _)
MarginSum(data, S) ==
  IF S = {} THEN 0
  ELSE LET i == CHOOSE x \in S : TRUE
       IN  (data[i].powerLimit - data[i].energyUsage) + MarginSum(data, S \ {i})

\* the call cannot be served: no donor, or 0.8 x (sum of the donors'
\* margins) < excess, i.e. 4 x sum < 5 x excess
Infeasible(data, alert) ==
  \/ DonorsOf(data, alert) = {}
  \/ 4 * MarginSum(data, DonorsOf(data, alert))
       < 5 * (alert.currentUsage - alert.limit)

RECURSIVE SumNum(_)
SumNum(donors) ==
  IF donors = <<>> THEN 0 ELSE Head(donors).cNum + SumNum(Tail(donors))

\* C1: a redistributePower call that finds no donor, or whose total
\* available power is less than the excess, returns false and leaves every
\* zone's limit and the adjustment history (length and entries) as they were.
C1_FailureChangesNothing ==
  Scanned =>
    \A k \in 1..Len(last.calls) :
      LET c == last.calls[k]
      IN  Infeasible(last.data, c.alert) =>
            /\ ~c.ok
            /\ c.st.limits = c.before.limits
            /\ c.st.history = c.before.history
            /\ (k = Len(last.calls) =>
                  /\ powerLimits = c.before.limits
                  /\ powerAdjustmentHistory = c.before.history)

\* a scan, after limits had been set, in which a call found two donors
\* whose total available power was below the excess, and returned false
C1_Witness ==
  /\ Scanned
  /\ \E k \in 1..Len(last.calls) :
       /\ Cardinality(DonorsOf(last.data, last.calls[k].alert)) = 2
       /\ Infeasible(last.data, last.calls[k].alert)
       /\ ~last.calls[k].ok
       /\ Len(powerAdjustmentHistory) > 0

\* C2: after a redistributePower call that returns true, the limit stored
\* for every donor zone is at least that donor's usage in the snapshot.
C2_DonorFloor ==
  Scanned =>
    \A k \in 1..Len(last.calls) :
      LET c == last.calls[k]
      IN  c.ok =>
            \A i \in DonorsOf(last.data, c.alert) :
              c.st.limits[last.data[i].location] >= last.data[i].energyUsage

\* C3: in a successful redistribution the contribution taken from a donor
\* is at most 80% of the donor's margin: contribution <= 4/5 x margin.
C3_ReservedMargin ==
  Scanned =>
    \A k \in 1..Len(last.calls) :
      LET c == last.calls[k]
      IN  c.ok =>
            \A d \in 1..Len(c.donors) :
              5 * c.donors[d].cNum
                <= 4 * (c.donors[d].powerLimit - c.donors[d].energyUsage)
                     * c.donors[d].cDen

\* C4: in a successful redistribution the contributions of all donors sum
\* to at most totalAvailable, the sum over the donors of 0.8 x margin.
C4_ContributionsWithinAvailable ==
  Scanned =>
    \A k \in 1..Len(last.calls) :
      LET c == last.calls[k]
      IN  (c.ok /\ Len(c.donors) > 0) =>
            5 * SumNum(c.donors) * 5
              <= 4 * MarginSum(last.data, DonorsOf(last.data, c.alert))
                   * 5 * c.donors[1].cDen

\* the positions of the snapshot set that violate: limit > 0 and usage > limit
Violating(data) ==
  {i \in DOMAIN data :
     data[i].powerLimit > 0 /\ data[i].energyUsage > data[i].powerLimit}

\* C5: checkPowerAlerts returns exactly one alert for each snapshot with
\* limit > 0 and usage > limit and none for any other, in the order of the
\* violating snapshots; each alert carries the zone, usage and limit of its
\* snapshot.
C5_OneAlertPerViolation ==
  Scanned =>
    /\ Len(last.returned) = Cardinality(Violating(last.data))
    /\ \A k \in 1..Len(last.returned) :
         \E i \in Violating(last.data) :
           /\ Cardinality({j \in Violating(last.data) : j <= i}) = k
           /\ last.returned[k].location = last.data[i].location
           /\ last.returned[k].currentUsage = last.data[i].energyUsage
           /\ last.returned[k].limit = last.data[i].powerLimit

\* a scan of a snapshot set with two violating zones, the first and the
\* third, and a zone between them that has a limit and keeps to it
C5_Witness ==
  /\ Scanned
  /\ Violating(last.data) = {1, 3}
  /\ last.data[2].powerLimit > 0
  /\ Len(last.returned) = 2

AutoNote == "Automatically resolved through power redistribution"

\* C6: an alert returned by checkPowerAlerts is resolved, with resolvedAt set
\* and the automatic note, exactly when redistributePower returned true for
\* it; otherwise it is active and has neither resolvedAt nor notes.
C6_ResolvedIffRedistributed ==
  Scanned =>
    /\ Len(last.calls) = Len(last.returned)
    /\ \A k \in 1..Len(last.returned) :
         LET a == last.returned[k]
             c == last.calls[k]
         IN  /\ c.alert.id = a.id /\ c.alert.location = a.location
             /\ c.ok = ~Infeasible(last.data, c.alert)
             /\ IF c.ok
                THEN /\ a.status = "resolved"
                     /\ a.resolvedAt # NoDate
                     /\ a.resolvedAt = now
                     /\ a.notes = AutoNote
                ELSE /\ a.status = "active"
                     /\ a.resolvedAt = NoDate
                     /\ a.notes = NoNotes

\* a scan that returned one alert resolved by redistribution and one left
\* active
C6_Witness ==
  /\ Scanned
  /\ \E k \in 1..Len(last.returned) :
       last.calls[k].ok /\ last.returned[k].status = "resolved"
  /\ \E k \in 1..Len(last.returned) :
       ~last.calls[k].ok /\ last.returned[k].status = "active"

\* C7: the length of the adjustment history equals the number of
\* setPowerLimit calls made so far, and a step only appends to the history:
\* the records already in it keep their position and their fields.
C7_LedgerAppendOnly ==
  /\ [](Len(powerAdjustmentHistory) = setCalls)
  /\ [][/\ Len(powerAdjustmentHistory') >= Len(powerAdjustmentHistory)
        /\ SubSeq(powerAdjustmentHistory', 1, Len(powerAdjustmentHistory))
             = powerAdjustmentHistory]_vars

\* an alert action taken when the history holds manual records and the
\* records of a redistribution
C7_Witness ==
  /\ last.op \in {"acknowledge", "resolve", "addNote", "dismiss"}
  /\ setCalls = 4
  /\ \E k \in 1..Len(powerAdjustmentHistory) :
       powerAdjustmentHistory[k].reason = <<"Manual adjustment">>
  /\ \E k \in 1..Len(powerAdjustmentHistory) :
       powerAdjustmentHistory[k].reason = <<"Received power from other locations">>

\* the records of the history before position k that are of the zone of
\* record k
Earlier(history, k) ==
  {j \in 1..(k - 1) : history[j].location = history[k].location}

\* the greatest element of a non-empty set of numbers
Greatest(S) == CHOOSE x \in S : \A y \in S : y <= x

\* C8: each record's oldLimit is the newLimit of the preceding record of the
\* same zone, or 0 when it is the zone's first record.
C8_OldLimitChains ==
  \A k \in 1..Len(powerAdjustmentHistory) :
    LET h == powerAdjustmentHistory
    IN  IF Earlier(h, k) = {}
        THEN h[k].oldLimit = 0
        ELSE h[k].oldLimit = h[Greatest(Earlier(h, k))].newLimit

\* a history in which a zone's manual record follows a record written for
\* it by a redistribution, and a redistribution record follows a manual one
C8_Witness ==
  LET h == powerAdjustmentHistory
  IN  /\ \E k \in 1..Len(h) :
           /\ h[k].reason = <<"Manual adjustment">>
           /\ Earlier(h, k) # {}
           /\ h[Greatest(Earlier(h, k))].reason # <<"Manual adjustment">>
           /\ h[k].oldLimit # h[k].newLimit
      /\ \E k \in 1..Len(h) :
           /\ h[k].reason # <<"Manual adjustment">>
           /\ Earlier(h, k) # {}
           /\ h[Greatest(Earlier(h, k))].reason = <<"Manual adjustment">>

\* the status steps the lifecycle allows, and no step at all
Allowed(from, to) ==
  \/ to = from
  \/ from = "active" /\ to \in {"acknowledged", "resolved"}
  \/ from = "acknowledged" /\ to = "resolved"

\* C9: the status of an alert changes only by the steps active ->
\* acknowledged, acknowledged -> resolved and active -> resolved, and a
\* resolved alert never changes status again.  A scan puts its alerts in
\* front of the list, a dismissal takes alerts out of it, and every other
\* step keeps each alert at its position.
C9_StatusSteps ==
  [][IF last'.op = "scan"
     THEN \A k \in 1..Len(alerts) :
            /\ k + Len(last'.returned) <= Len(alerts')
            /\ alerts'[k + Len(last'.returned)].status = alerts[k].status
     ELSE IF last'.op = "dismiss"
     THEN \A j \in 1..Len(alerts') : \E k \in 1..Len(alerts) : alerts'[j] = alerts[k]
     ELSE /\ Len(alerts') = Len(alerts)
          /\ \A k \in 1..Len(alerts) :
               Allowed(alerts[k].status, alerts'[k].status)]_vars

\* C10: acknowledging an alert whose status is not active is a no-op: in a
\* step that acknowledges an id, every alert of the list that is not active
\* keeps its status, its acknowledgedAt and its resolvedAt.
C10_AcknowledgeOnlyActive ==
  [][last'.op = "acknowledge" =>
       /\ Len(alerts') = Len(alerts)
       /\ \A k \in 1..Len(alerts) :
            alerts[k].status # "active" =>
              /\ alerts'[k].status = alerts[k].status
              /\ alerts'[k].acknowledgedAt = alerts[k].acknowledgedAt
              /\ alerts'[k].resolvedAt = alerts[k].resolvedAt]_vars

\* C11: in every reachable state of the alert list, an alert has resolvedAt
\* set exactly when its status is resolved, and an alert that has
\* acknowledgedAt set has status acknowledged or resolved.
C11_DatesFollowStatus ==
  \A k \in 1..Len(alerts) :
    /\ (alerts[k].resolvedAt # NoDate) <=> (alerts[k].status = "resolved")
    /\ (alerts[k].acknowledgedAt # NoDate) =>
         alerts[k].status \in {"acknowledged", "resolved"}

\* C12: whenever an alert has both acknowledgedAt and resolvedAt set,
\* acknowledgedAt <= resolvedAt (the clock of the model never goes back).
C12_AcknowledgedBeforeResolved ==
  \A k \in 1..Len(alerts) :
    (alerts[k].acknowledgedAt # NoDate /\ alerts[k].resolvedAt # NoDate) =>
      alerts[k].acknowledgedAt <= alerts[k].resolvedAt

\* a sequence without its element at position k
RemoveAt(s, k) == SubSeq(s, 1, k - 1) \o SubSeq(s, k + 1, Len(s))

\* C13: a dismissal removes exactly the dismissed alert from the list,
\* whatever its status: the list is the old one without one position, which
\* held the dismissed id; every other alert stays as it was, and no limit
\* and no record of the adjustment history changes.
C13_DismissRemovesOne ==
  [][last'.op = "dismiss" =>
       /\ \E k \in 1..Len(alerts) :
            /\ alerts[k].id = last'.target
            /\ alerts' = RemoveAt(alerts, k)
       /\ powerLimits' = powerLimits
       /\ powerAdjustmentHistory' = powerAdjustmentHistory]_vars

\* C14: any two distinct alerts created by checkPowerAlerts have different
\* ids, scans made at the same value of Date.now() included: no two
\* positions of the alert list hold the same id.
C14_DistinctIds ==
  \A j, k \in 1..Len(alerts) :
    j # k => alerts[j].id # alerts[k].id

\* limit, counted in 1/Scale kWh, is Math.round(1.1 x usage) kWh: a whole
\* number n of kWh with n - 1/2 <= 1.1 x usage < n + 1/2
IsRoundedTenPercentAbove(limit, usage) ==
  /\ limit % Scale = 0
  /\ LET n == limit \div Scale
     IN  /\ (2 * n - 1) * 10 * Scale <= 22 * usage
         /\ 22 * usage < (2 * n + 1) * 10 * Scale

\* C15: when redistributePower returns true, the limit of the violating zone
\* is round(1.1 x usage) of the alert's usage, recorded with the reason
\* "Received power from other locations"; that record is the last of the
\* call and the write the last of the call, after one record per donor.
C15_ViolatorRaisedLast ==
  Scanned =>
    \A k \in 1..Len(last.calls) :
      LET c     == last.calls[k]
          h     == c.st.history
          first == Len(c.before.history) + 1
          n     == Len(h)
      IN  c.ok =>
            /\ n = Len(c.before.history)
                     + Cardinality(DonorsOf(last.data, c.alert)) + 1
            /\ h[n].location = c.alert.location
            /\ h[n].reason = <<"Received power from other locations">>
            /\ h[n].newLimit = c.st.limits[c.alert.location]
            /\ IsRoundedTenPercentAbove(h[n].newLimit, c.alert.currentUsage)
            /\ \A j \in first..(n - 1) :
                 /\ h[j].location # c.alert.location
                 /\ h[j].reason[1] = "Contributed"

\* a scan in which a redistribution took from two donors and then raised
\* the violating zone above the limit it had
C15_Witness ==
  /\ Scanned
  /\ \E k \in 1..Len(last.calls) :
       LET c == last.calls[k]
       IN  /\ c.ok
           /\ Cardinality(DonorsOf(last.data, c.alert)) = 2
           /\ powerLimits[c.alert.location] > c.alert.limit
           /\ powerAdjustmentHistory[Len(powerAdjustmentHistory)].location
                = c.alert.location

\* the snapshot set of the worked example: zone A (the first) with limit
\* 100 and usage 120, zone B (the second) with limit 200 and usage 100, and
\* no limit on any other zone
ExampleData(data) ==
  /\ data[1].powerLimit = 100 * Scale /\ data[1].energyUsage = 120 * Scale
  /\ data[2].powerLimit = 200 * Scale /\ data[2].energyUsage = 100 * Scale
  /\ \A i \in 3..Len(data) : data[i].powerLimit = 0

\* C16: with zone A (limit 100, usage 120), zone B (limit 200, usage 100)
\* and zone C (limit 0), the redistribution for A's violation succeeds, B's
\* new limit is 180, and C is excluded: its limit stays 0 and the call
\* writes no adjustment record for it.
C16_WorkedExample ==
  (Scanned /\ ExampleData(last.data)) =>
    /\ Len(last.calls) = 1
    /\ last.calls[1].ok
    /\ powerLimits[LOCATIONS[2]] = 180 * Scale
    /\ \A i \in 3..NumZones : powerLimits[LOCATIONS[i]] = 0
    /\ \A j \in (Len(last.calls[1].before.history) + 1)
                  ..Len(powerAdjustmentHistory) :
         powerAdjustmentHistory[j].location \in {LOCATIONS[1], LOCATIONS[2]}

\* C17: a scan of a snapshot set with no violation (no snapshot with
\* limit > 0 and usage > limit) returns an empty alert list and leaves the
\* adjustment history and the limit of every zone as they were.
C17_NoViolationNoEffect ==
  [][(last'.op = "scan" /\ Violating(last'.data) = {}) =>
       /\ last'.returned = <<>>
       /\ last'.calls = <<>>
       /\ powerLimits' = powerLimits
       /\ powerAdjustmentHistory' = powerAdjustmentHistory]_vars

\* a scan without violation of a snapshot set in which one zone has a limit
\* and keeps to it and another has no limit, the history holding records
C17_Witness ==
  /\ Scanned
  /\ Violating(last.data) = {}
  /\ last.returned = <<>>
  /\ \E i \in DOMAIN last.data : last.data[i].powerLimit > 0
  /\ \E i \in DOMAIN last.data : last.data[i].powerLimit = 0
  /\ Len(powerAdjustmentHistory) > 0

\* what was typed is not a number, or is a number that is not above 0
NotAPositiveNumber(s) == parseFloat(s).isNaN \/ parseFloat(s).value <= 0

\* C18: a set-limit request of the operator whose value is non-numeric or
\* not greater than 0 is rejected before it reaches the registry: no zone's
\* limit changes and no adjustment record is created.
C18_InvalidLimitRejected ==
  [][(last'.op = "handleSubmit" /\ NotAPositiveNumber(last'.input)) =>
       /\ powerLimits' = powerLimits
       /\ powerAdjustmentHistory' = powerAdjustmentHistory
       /\ setCalls' = setCalls]_vars

\* the operator has submitted 0 for a limit when limits were set already
C18_Witness ==
  /\ last.op = "handleSubmit"
  /\ last.input = "0"
  /\ \E z \in Zones : powerLimits[z] > 0
  /\ Len(powerAdjustmentHistory) > 0

\* C19: a scan never changes an alert that is in the alert list already:
\* the list after the scan is the alerts the scan returned followed by the
\* list as it was.  An alert left active stays active through every scan,
\* the scans that redistribute power for its zone included.
C19_ScanKeepsStoredAlerts ==
  [][last'.op = "scan" =>
       /\ Len(alerts') = Len(last'.returned) + Len(alerts)
       /\ \A k \in 1..Len(alerts) :
            alerts'[Len(last'.returned) + k] = alerts[k]]_vars

\* a scan has redistributed power for a zone and returned a resolved alert
\* for it, and the list still holds an earlier alert of the zone as active
C19_Witness ==
  /\ Scanned
  /\ \E j \in 1..Len(last.returned) :
       \E k \in (Len(last.returned) + 1)..Len(alerts) :
         /\ last.calls[j].ok
         /\ alerts[j].status = "resolved"
         /\ alerts[k].location = alerts[j].location
         /\ alerts[k].status = "active"

\* C20: every scan creates a new alert, and calls redistributePower, for
\* every violating zone, whatever alerts the list holds for that zone: the
\* alerts of the scan are at the front of the list after it.
C20_FlaggedAgain ==
  Scanned =>
    /\ Len(last.returned) <= Len(alerts)
    /\ \A k \in 1..Len(last.returned) : alerts[k] = last.returned[k]
    /\ \A i \in Violating(last.data) :
         \E k \in 1..Len(last.returned) :
           /\ last.returned[k].location = last.data[i].location
           /\ last.calls[k].alert.location = last.data[i].location

\* the list holds two alerts of one zone that are not resolved: one that the
\* operator has acknowledged, and the one of the scan made after that
C20_Witness ==
  /\ Scanned
  /\ \E j \in 1..Len(last.returned) :
       \E k \in (Len(last.returned) + 1)..Len(alerts) :
         /\ alerts[j].location = alerts[k].location
         /\ alerts[j].status = "active"
         /\ alerts[k].status = "acknowledged"

\* the zones of the records a call has written
WrittenBy(c) ==
  {c.st.history[j].location :
     j \in (Len(c.before.history) + 1)..Len(c.st.history)}

\* the zones of a set of positions of the snapshot set
ZonesOf(data, S) == {data[i].location : i \in S}

\* C21: a successful redistribution writes limits and adjustment records
\* for exactly the donor zones (another zone with limit > 0 and usage <
\* limit in the snapshot) and the violating zone: one record each.  Every
\* other zone keeps its limit and gets no record.
C21_WritesDonorsAndViolator ==
  Scanned =>
    \A k \in 1..Len(last.calls) :
      LET c      == last.calls[k]
          donors == ZonesOf(last.data, DonorsOf(last.data, c.alert))
      IN  c.ok =>
            /\ WrittenBy(c) = donors \cup {c.alert.location}
            /\ Len(c.st.history) - Len(c.before.history)
                 = Cardinality(donors) + 1
            /\ \A z \in Zones \ (donors \cup {c.alert.location}) :
                 c.st.limits[z] = c.before.limits[z]

\* a successful redistribution in a snapshot set that has, besides the
\* violating zone, a donor, a zone over its limit and nothing else
C21_Witness ==
  /\ Scanned
  /\ \E k \in 1..Len(last.calls) :
       LET c == last.calls[k]
       IN  /\ c.ok
           /\ Cardinality(DonorsOf(last.data, c.alert)) = 1
           /\ \E i \in Violating(last.data) :
                last.data[i].location # c.alert.location

\* limit, counted in 1/Scale kWh, is Math.round of the rational num / den
\* kWh (den > 0): a whole number n with n - 1/2 <= num / den < n + 1/2
IsRounded(limit, num, den) ==
  /\ limit % Scale = 0
  /\ LET n == limit \div Scale
     IN  /\ (2 * n - 1) * den <= 2 * num
         /\ 2 * num < (2 * n + 1) * den

\* C22: in a successful redistribution the new limit of each donor is
\* round(max(usage, limit - (margin / totalAvailable) x excess)) with
\* margin = limit - usage, totalAvailable = 0.8 x (sum of the donors'
\* margins) and excess = alert usage - alert limit, all of the snapshot and
\* the alert; rounding is half up and is applied to the final limit only.
\* The donors are written in the order of the snapshot set.
C22_DonorNewLimit ==
  Scanned =>
    \A k \in 1..Len(last.calls) :
      LET c      == last.calls[k]
          D      == DonorsOf(last.data, c.alert)
          sum    == MarginSum(last.data, D)
          excess == c.alert.currentUsage - c.alert.limit
      IN  c.ok =>
            \A i \in D :
              LET rank   == Cardinality({j \in D : j <= i})
                  rec    == c.st.history[Len(c.before.history) + rank]
                  usage  == last.data[i].energyUsage
                  limit  == last.data[i].powerLimit
                  margin == limit - usage
                  \* max(usage, limit - margin x excess / (0.8 x sum)),
                  \* in 1/Scale kWh, times 4 x sum
                  num    == Max(usage * 4 * sum,
                                limit * 4 * sum - 5 * margin * excess)
              IN  /\ rec.location = last.data[i].location
                  /\ IsRounded(rec.newLimit, num, 4 * sum * Scale)

\* a successful redistribution in which the value to round was not a whole
\* number for one donor, and one with two donors
C22_Witness ==
  /\ Scanned
  /\ \E k \in 1..Len(last.calls) :
       LET c == last.calls[k]
       IN  /\ c.ok
           /\ Len(c.donors) = 2
           /\ \E d \in 1..Len(c.donors) :
                c.donors[d].nlNum % (c.donors[d].cDen * Scale) # 0

\* the positions of a history that hold a record of a zone
RecordsOf(history, z) == {k \in 1..Len(history) : history[k].location = z}

\* C24: in every reachable state the limit of each zone in the registry is
\* the newLimit of the latest adjustment record of the zone, and a zone
\* without a record has no limit (0).
C24_LimitIsLatestRecord ==
  \A z \in Zones :
    LET R == RecordsOf(powerAdjustmentHistory, z)
    IN  IF R = {}
        THEN powerLimits[z] = 0
        ELSE powerLimits[z] = powerAdjustmentHistory[Greatest(R)].newLimit

\* a zone set by hand and then lowered as a donor, a zone raised by a
\* redistribution, and a zone never written
C24_Witness ==
  LET h == powerAdjustmentHistory
  IN  /\ \E z \in Zones :
           /\ Cardinality(RecordsOf(h, z)) >= 2
           /\ h[Greatest(RecordsOf(h, z))].reason[1] = "Contributed"
           /\ powerLimits[z] # 150 * Scale
      /\ \E z \in Zones :
           /\ RecordsOf(h, z) # {}
           /\ h[Greatest(RecordsOf(h, z))].reason
                = <<"Received power from other locations">>
      /\ \E z \in Zones : RecordsOf(h, z) = {} /\ powerLimits[z] = 0

\* C25: in a successful redistribution the contributions of the donors
\* (the proportional shares, before rounding) sum to exactly the excess of
\* the violating zone, usage - limit.
C25_SharesSumToExcess ==
  Scanned =>
    \A k \in 1..Len(last.calls) :
      LET c == last.calls[k]
      IN  (c.ok /\ Len(c.donors) > 0) =>
            SumNum(c.donors)
              = (c.alert.currentUsage - c.alert.limit) * c.donors[1].cDen

\* the sum of the contributions taken from the zone at position i of the
\* snapshot set by the successful calls k..Len(calls), as the rational
\* num / den
RECURSIVE TakenFrom(_, _, _)
TakenFrom(calls, k, location) ==
  IF k > Len(calls) THEN [num |-> 0, den |-> 1]
  ELSE LET rest == TakenFrom(calls, k + 1, location)
           mine == {d \in 1..Len(calls[k].donors) :
                      calls[k].donors[d].location = location}
       IN  IF calls[k].ok /\ mine # {}
           THEN LET d == CHOOSE x \in mine : TRUE
                IN  [num |-> calls[k].donors[d].cNum * rest.den
                               + rest.num * calls[k].donors[d].cDen,
                     den |-> calls[k].donors[d].cDen * rest.den]
           ELSE rest

\* C26: within one scan the contributions taken from one donor by all the
\* redistributions of the scan total at most the donor's margin in the
\* snapshot, limit - usage: no spare capacity is given away twice.
C26_MarginGivenOnce ==
  Scanned =>
    \A i \in DOMAIN last.data :
      LET taken == TakenFrom(last.calls, 1, last.data[i].location)
      IN  (last.data[i].powerLimit > 0
             /\ last.data[i].energyUsage < last.data[i].powerLimit) =>
            taken.num
              <= (last.data[i].powerLimit - last.data[i].energyUsage) * taken.den

\* C27: every adjustment record written for a donor by a redistribution
\* (reason "Contributed ... kWh to ...") has newLimit <= oldLimit, also
\* when one scan handles several violations.
C27_DonorNeverRaised ==
  \A k \in 1..Len(powerAdjustmentHistory) :
    powerAdjustmentHistory[k].reason[1] = "Contributed" =>
      powerAdjustmentHistory[k].newLimit <= powerAdjustmentHistory[k].oldLimit

\* the sum of the limits of a set of zones
RECURSIVE LimitSum(_, _)
LimitSum(limits, S) ==
  IF S = {} THEN 0
  ELSE LET z == CHOOSE x \in S : TRUE
       IN  limits[z] + LimitSum(limits, S \ {z})

\* C28: a successful redistribution does not increase the sum of the
\* limits over all zones: the violating zone is raised by at most what the
\* donors' limits are lowered by in all.
C28_LimitSumNotIncreased ==
  Scanned =>
    \A k \in 1..Len(last.calls) :
      LET c == last.calls[k]
      IN  c.ok => LimitSum(c.st.limits, Zones) <= LimitSum(c.before.limits, Zones)

C30_ResolvedZoneCovered ==
  Scanned =>
    \A k \in 1..Len(last.returned) :
      last.returned[k].status = "resolved" =>
        powerLimits[last.returned[k].location] >= last.returned[k].currentUsage

\* a scan that has resolved two alerts by redistribution
C30_Witness ==
  /\ Scanned
  /\ \E j, k \in 1..Len(last.returned) :
       /\ j < k
       /\ last.returned[j].status = "resolved"
       /\ last.returned[k].status = "resolved"

\* C23: a monitoring cycle (snapshot, scan, every redistribution of the
\* scan) is one atomic step for the operator's actions and for other
\* cycles.  While a cycle is between its first read and its last write
\* every step is a step of that cycle; a handler never starts on a
\* registry with a donor lowered and the violating zone not yet raised;
\* and the cycle ends with the registries and the alert list that
\* checkPowerAlerts, applied in one go to what the cycle found, gives.
C23_CycleIsAtomic ==
  [][/\ cycle.pc # "idle" =>
          /\ last'.op \in {"cycle", "scan"}
          /\ cycle'.pc # "idle" => cycle'.start = cycle.start
     /\ last'.op \notin {"cycle", "scan"} =>
          (powerAdjustmentHistory = <<>>
             \/ powerAdjustmentHistory[Len(powerAdjustmentHistory)].reason[1]
                  # "Contributed")
     /\ (cycle.pc # "idle" /\ cycle'.pc = "idle") =>
          LET r == checkPowerAlerts(cycle.start, cycle.data, now)
          IN  /\ powerLimits' = r.st.limits
              /\ powerAdjustmentHistory' = r.st.history
              /\ alerts' = r.alerts \o alerts]_vars

\* a cycle is between the lowering of a donor and the raising of the
\* violating zone, with an alert in the list that the operator could act on
C23_Witness ==
  /\ cycle.pc = "donors"
  /\ cycle.pending = <<>>
  /\ Len(powerAdjustmentHistory) > 0
  /\ powerAdjustmentHistory[Len(powerAdjustmentHistory)].reason[1] = "Contributed"
  /\ \E k \in 1..Len(alerts) : alerts[k].status = "active"

====
